---- MODULE Spec2Model ----
(***************************************************************************)
(* A model of pdf-finder (src/app.py): the paginated search of every       *)
(* configured query, the deduplication of the combined hits by link, the   *)
(* download of every unique link under a collision-free file name, and the *)
(* manifest write.                                                         *)
(*                                                                         *)
(* Python strings are modelled as sequences of one-character strings, so   *)
(* that the regular-expression substitutions, the truncation, the suffix   *)
(* test and the path formatting are computed character by character.       *)
(***************************************************************************)
EXTENDS Integers, Sequences, FiniteSets, TLC

VARIABLES
    pc,           \* position of main(): "search", "page", "dedupe", "download", "done"
                  \* ("idle" when only the filename driver runs)
    qi,           \* index into QUERIES of the query being searched
    page,         \* search_pdfs: number of loop iterations completed
    start,        \* search_pdfs: the start parameter of the next request
    stopped,      \* search_pdfs: the loop has hit its break
    results,      \* search_pdfs: the local list of results
    reqs,         \* history: start parameters of the requests of the running search_pdfs call
    nexts,        \* history: next-page start index of each response of that call (0 = none)
    returned,     \* history: per finished query, whether its search raised and the hits
                  \* search_pdfs had collected when it returned or raised
    all_results,  \* main: the list of entries
    combined,     \* history: the list handed to dedupe
    di,           \* main: 1-based position of the download loop
    disk,         \* the set of paths that exist in OUT_DIR
    dlog,         \* history: one record per call of download_pdf
    manifests,    \* the lists handed to save_manifest, in call order
    name,         \* filename driver: the current string
    prev,         \* filename driver: the string before the last application
    applied       \* filename driver: number of applications of safe_filename

vars == <<pc, qi, page, start, stopped, results, reqs, nexts, returned, all_results,
          combined, di, disk, dlog, manifests, name, prev, applied>>

runVars == <<pc, qi, page, start, stopped, results, reqs, nexts, returned, all_results,
             combined, di, disk, dlog, manifests>>

nameVars == <<name, prev, applied>>

----------------------------------------------------------------------------
(* Characters and strings *)

Letters ==
    {"a","b","c","d","e","f","g","h","i","j","k","l","m","n","o","p","q","r","s","t",
     "u","v","w","x","y","z",
     "A","B","C","D","E","F","G","H","I","J","K","L","M","N","O","P","Q","R","S","T",
     "U","V","W","X","Y","Z"}

DigitChars == <<"0","1","2","3","4","5","6","7","8","9">>

\* \w of the re module: letters, digits and the underscore
IsWord(c) == c \in Letters \/ c \in {DigitChars[i] : i \in 1..10} \/ c = "_"

\* \s of the re module, also what str.strip() removes
IsSpace(c) == c \in {" ", "\t", "\n", "\r"}

\* str.lower(), one character
LowerChar(c) ==
    CASE c = "A" -> "a" [] c = "B" -> "b" [] c = "C" -> "c" [] c = "D" -> "d"
      [] c = "E" -> "e" [] c = "F" -> "f" [] c = "G" -> "g" [] c = "H" -> "h"
      [] c = "I" -> "i" [] c = "J" -> "j" [] c = "K" -> "k" [] c = "L" -> "l"
      [] c = "M" -> "m" [] c = "N" -> "n" [] c = "O" -> "o" [] c = "P" -> "p"
      [] c = "Q" -> "q" [] c = "R" -> "r" [] c = "S" -> "s" [] c = "T" -> "t"
      [] c = "U" -> "u" [] c = "V" -> "v" [] c = "W" -> "w" [] c = "X" -> "x"
      [] c = "Y" -> "y" [] c = "Z" -> "z" [] OTHER -> c

Lower(s) == [i \in 1..Len(s) |-> LowerChar(s[i])]

Min(a, b) == IF a <= b THEN a ELSE b

\* F applied to the value of e: e is evaluated once, as an assignment evaluates its
\* right-hand side once
With(e, F(_)) == CHOOSE r \in {F(x) : x \in {e}} : TRUE

\* s[:n]
Take(s, n) == SubSeq(s, 1, Min(n, Len(s)))

\* s[n:] with n counted from 0
Drop(s, n) == SubSeq(s, n + 1, Len(s))

\* pat in s
Contains(s, pat) ==
    \E i \in 1..(Len(s) - Len(pat) + 1) : SubSeq(s, i, i + Len(pat) - 1) = pat

\* s.endswith(suf)
EndsWith(s, suf) ==
    Len(s) >= Len(suf) /\ SubSeq(s, Len(s) - Len(suf) + 1, Len(s)) = suf

\* s.replace(pat, ""), pat non-empty
RECURSIVE Remove(_, _)
Remove(s, pat) ==
    IF Len(s) < Len(pat) THEN s
    ELSE IF Take(s, Len(pat)) = pat THEN Remove(Drop(s, Len(pat)), pat)
    ELSE <<s[1]>> \o Remove(Tail(s), pat)

\* the decimal digits of a natural number, as str(n) and {n} in an f-string give them
RECURSIVE Dec(_)
Dec(n) == IF n < 10 THEN <<DigitChars[n + 1]>>
          ELSE Dec(n \div 10) \o <<DigitChars[(n % 10) + 1]>>

\* the string of n copies of c
Rep(c, n) == [i \in 1..n |-> c]

DotPdf == <<".", "p", "d", "f">>

Document == <<"d", "o", "c", "u", "m", "e", "n", "t">>

Empty == <<>>

----------------------------------------------------------------------------
(* safe_filename, guess_filename_from_url, is_pdf_response *)

\* the slice bound of safe_filename
NameLimit == 150

\* re.sub(r"[^\w\s\-.()]+", "", name)
StripChars(s) ==
    SelectSeq(s, LAMBDA c : IsWord(c) \/ IsSpace(c) \/ c \in {"-", ".", "(", ")"})

\* re.sub(r"\s+", " ", name): every maximal run of whitespace becomes one space
CollapseSpace(s) ==
    LET keep == SelectSeq([i \in 1..Len(s) |-> i],
                          LAMBDA i : ~IsSpace(s[i]) \/ i = 1 \/ ~IsSpace(s[i - 1]))
    IN  [k \in 1..Len(keep) |-> IF IsSpace(s[keep[k]]) THEN " " ELSE s[keep[k]]]

\* str.strip()
Strip(s) ==
    LET solid == {i \in 1..Len(s) : ~IsSpace(s[i])}
    IN  IF solid = {} THEN Empty
        ELSE SubSeq(s, CHOOSE i \in solid : \A j \in solid : i <= j,
                       CHOOSE i \in solid : \A j \in solid : j <= i)

\* the two substitutions and the strip of safe_filename, before the slice
Cleaned(s) ==
    With(StripChars(s), LAMBDA a : With(CollapseSpace(a), LAMBDA b : Strip(b)))

safe_filename(s) ==
    With(Cleaned(s), LAMBDA c :
    With(Take(c, NameLimit), LAMBDA cut : IF cut # Empty THEN cut ELSE Document))

\* requests.utils.urlparse(url).path for a URL scheme://netloc/path?query#fragment
UrlPath(url) ==
    LET marks == {i \in 1..Len(url) : url[i] \in {"?", "#"}}
        upto  == IF marks = {} THEN Len(url)
                 ELSE (CHOOSE i \in marks : \A j \in marks : i <= j) - 1
        head  == Take(url, upto)
        sep   == {i \in 1..(Len(head) - 2) : SubSeq(head, i, i + 2) = <<":", "/", "/">>}
    IN  IF sep = {} THEN head
        ELSE LET a == (CHOOSE i \in sep : \A j \in sep : i <= j) + 3
                 slashes == {i \in a..Len(head) : head[i] = "/"}
             IN  IF slashes = {} THEN Empty
                 ELSE SubSeq(head, CHOOSE i \in slashes : \A j \in slashes : i <= j, Len(head))

\* pathlib's Path(p).name: the last component of the path
PathName(p) ==
    LET solid == {i \in 1..Len(p) : p[i] # "/"}
    IN  IF solid = {} THEN Empty
        ELSE LET hi == CHOOSE i \in solid : \A j \in solid : j <= i
                 from == {i \in 1..hi : \A j \in i..hi : p[j] # "/"}
             IN  SubSeq(p, CHOOSE i \in from : \A j \in from : i <= j, hi)

guess_filename_from_url(url) ==
    With(UrlPath(url), LAMBDA p :
    With(PathName(p), LAMBDA base :
    With(IF base # Empty THEN base ELSE Document, LAMBDA fname :
    With(Remove(fname, DotPdf), LAMBDA stem : safe_filename(stem)))))

ApplicationPdf == <<"a","p","p","l","i","c","a","t","i","o","n","/","p","d","f">>

\* a response: status code, whether a Content-Type header is present and its value,
\* and the exception the exchange raises ("none", "connect" before any response,
\* "stream" while the body is read) with the exception's message
\* the test without .lower()
is_pdf_response_cased(resp) ==
    Contains(IF resp.has_ctype THEN resp.ctype ELSE Empty, ApplicationPdf)

is_pdf_response(resp) ==
    Contains(Lower(IF resp.has_ctype THEN resp.ctype ELSE Empty), ApplicationPdf)

----------------------------------------------------------------------------
(* The filename driver: safe_filename applied to a string, then to its result *)

MaxTail == 3

PadLens == {0, NameLimit - 2, NameLimit - 1, NameLimit}

TailChars == {"b", " ", "\t", "!", "."}

RECURSIVE SeqsUpTo(_, _)
SeqsUpTo(S, n) ==
    IF n = 0 THEN {Empty}
    ELSE LET shorter == SeqsUpTo(S, n - 1)
         IN  shorter \cup {Append(s, x) : s \in {t \in shorter : Len(t) = n - 1}, x \in S}

NameInputs == {Rep("a", k) \o t : k \in PadLens, t \in SeqsUpTo(TailChars, MaxTail)}

InitIdle ==
    /\ pc = "idle" /\ qi = 0 /\ page = 0 /\ start = 0 /\ stopped = FALSE
    /\ results = Empty /\ reqs = Empty /\ nexts = Empty /\ returned = Empty
    /\ all_results = Empty /\ combined = Empty /\ di = 0 /\ disk = {}
    /\ dlog = Empty /\ manifests = Empty

InitName ==
    /\ InitIdle
    /\ name \in NameInputs /\ prev = Empty /\ applied = 0

ApplySafeFilename ==
    /\ applied < 2
    /\ prev' = name
    /\ name' = safe_filename(name)
    /\ applied' = applied + 1
    /\ UNCHANGED runVars

SpecName == InitName /\ [][ApplySafeFilename]_vars

\* C6: safe_filename is idempotent: applying it to its own result changes nothing
SafeFilenameIdempotent == applied = 2 => name = prev

----------------------------------------------------------------------------
(* Configuration and the outside world of a run *)

QUERIES == <<"q1", "q2">>

\* the page budget of search_pdfs
PAGES == 2

OUT_DIR == <<"p","d","f","_","d","o","w","n","l","o","a","d","s">>

\* range(2, 9999) of the collision loop stops before this value
TrialLimit == 9999

Report == <<"R","e","p","o","r","t">>

\* the items the search API can return: a title and a link
ItemA == [title |-> Report, link |-> <<"h",":","/","/","n","/","a",".","P","D","F">>]
ItemB == [title |-> Report \o <<"!">>, link |-> <<"h",":","/","/","n","/","b">>]
ItemC == [title |-> <<"!","?">>, link |-> <<"h",":","/","/","n","/","d","/","c",".","p","d","f","?","x">>]
ItemD == [title |-> <<" ">>, link |-> <<"h",":","/","/","n","/">>]

\* the item lists one page of the search API can carry
PageItems == {Empty, <<ItemA, ItemB>>, <<ItemC, ItemA>>}

\* the next-page start index of a response; 0 stands for a response without one
NoNext == 0

NextStarts == {NoNext, 11, 21}

\* what one search request can end in: a parsed response, or requests.HTTPError
\* from raise_for_status ("http"), or another exception ("other")
SearchResponses ==
    [exc : {"none"}, items : PageItems, next : NextStarts]
      \cup [exc : {"http", "other"}, items : {Empty}, next : {NoNext}]

TextHtml == <<"t","e","x","t","/","h","t","m","l">>

PdfType == <<"A","p","p","l","i","c","a","t","i","o","n","/","P","D","F",";"," ","q","=","1">>

TimedOut == <<"t","i","m","e","d"," ","o","u","t">>

Response(status, has_ctype, ctype, exc, msg) ==
    [status |-> status, has_ctype |-> has_ctype, ctype |-> ctype, exc |-> exc, msg |-> msg]

\* what one download request can end in
DownloadResponses ==
    { Response(200, TRUE, PdfType, "none", Empty),
      Response(200, TRUE, TextHtml, "none", Empty),
      Response(200, FALSE, Empty, "none", Empty),
      Response(404, TRUE, PdfType, "none", Empty),
      Response(200, TRUE, PdfType, "stream", TimedOut),
      Response(0, FALSE, Empty, "connect", TimedOut),
      Response(0, FALSE, Empty, "connect", Empty) }

----------------------------------------------------------------------------
(* search_pdfs, one loop iteration at a time, and main's loop over QUERIES *)

\* the dictionary search_pdfs appends for an item
Hit(q, item) == [query |-> q, title |-> item.title, link |-> item.link]

\* main: h["status"], h["saved_as"], h["error"] = "", "", ""
WithOutcome(h) ==
    [query |-> h.query, title |-> h.title, link |-> h.link,
     status |-> "", saved_as |-> Empty, error |-> Empty]

\* search_pdfs: the start of the following request, given the response's nextPage
NextStart(cur, next) == IF next = NoNext THEN cur ELSE next

\* a loop that never breaks
NeverBreaks(next) == FALSE

\* search_pdfs: "if not next_page: break"
Breaks(next) == next = NoNext

\* an except clause that keeps what the search had collected
KeepPartial(partial) == partial

\* main: hits of a query whose search raised, in both except clauses
HitsOnFailure(partial) == Empty

\* a loop over QUERIES that ends after its first iteration
AfterFirstQuery(q) == "dedupe"

\* main: where the loop over QUERIES goes after query number q
AfterQuery(q) == IF q = Len(QUERIES) THEN "dedupe" ELSE "search"

BeginSearch ==
    /\ pc = "search"
    /\ pc' = "page"
    /\ page' = 0 /\ start' = 1 /\ stopped' = FALSE
    /\ results' = Empty /\ reqs' = Empty /\ nexts' = Empty
    /\ UNCHANGED <<qi, returned, all_results, combined, di, disk, dlog, manifests, nameVars>>

\* one iteration of the for loop that gets a response and parses it
FetchPage ==
    /\ pc = "page" /\ page < PAGES /\ ~stopped
    /\ \E r \in SearchResponses :
         /\ r.exc = "none"
         /\ reqs' = Append(reqs, start)
         /\ nexts' = Append(nexts, r.next)
         /\ results' = results \o [k \in 1..Len(r.items) |-> Hit(QUERIES[qi], r.items[k])]
         /\ stopped' = Breaks(r.next)
         /\ start' = NextStart(start, r.next)
         /\ page' = page + 1
    /\ UNCHANGED <<pc, qi, returned, all_results, combined, di, disk, dlog, manifests, nameVars>>

\* one iteration whose request raises: search_pdfs is left, main's except clause runs
SearchRaises ==
    /\ pc = "page" /\ page < PAGES /\ ~stopped
    /\ \E r \in SearchResponses :
         /\ r.exc # "none"
         /\ reqs' = Append(reqs, start)
    /\ returned' = Append(returned, [raised |-> TRUE, hits |-> results])
    /\ all_results' = all_results \o
           [k \in 1..Len(HitsOnFailure(results)) |-> WithOutcome(HitsOnFailure(results)[k])]
    /\ results' = Empty
    /\ qi' = qi + 1
    /\ pc' = AfterQuery(qi)
    /\ UNCHANGED <<page, start, stopped, nexts, combined, di, disk, dlog, manifests, nameVars>>

\* the loop of search_pdfs is over: it returns, main extends all_results
SearchReturn ==
    /\ pc = "page" /\ (page >= PAGES \/ stopped)
    /\ all_results' = all_results \o [k \in 1..Len(results) |-> WithOutcome(results[k])]
    /\ returned' = Append(returned, [raised |-> FALSE, hits |-> results])
    /\ results' = Empty
    /\ qi' = qi + 1
    /\ pc' = AfterQuery(qi)
    /\ UNCHANGED <<page, start, stopped, reqs, nexts, combined, di, disk, dlog,
                   manifests, nameVars>>

----------------------------------------------------------------------------
(* dedupe *)

RECURSIVE DedupeLoop(_, _, _, _)
DedupeLoop(rs, i, seen, out) ==
    IF i > Len(rs) THEN out
    ELSE IF rs[i].link \notin seen
         THEN DedupeLoop(rs, i + 1, seen \cup {rs[i].link}, Append(out, rs[i]))
         ELSE DedupeLoop(rs, i + 1, seen, out)

\* deduplication through a dictionary keyed by link: the position of the first
\* occurrence, the entry of the last
dedupe_by_dict(rs) ==
    LET first == SelectSeq([i \in 1..Len(rs) |-> i],
                           LAMBDA i : \A j \in 1..(i - 1) : rs[j].link # rs[i].link)
        Last(l) == CHOOSE i \in 1..Len(rs) :
                      rs[i].link = l /\ \A j \in (i + 1)..Len(rs) : rs[j].link # l
    IN  [k \in 1..Len(first) |-> rs[Last(rs[first[k]].link)]]

dedupe(rs) == DedupeLoop(rs, 1, {}, Empty)

Dedupe ==
    /\ pc = "dedupe"
    /\ combined' = all_results
    /\ all_results' = dedupe(all_results)
    /\ di' = 1
    /\ pc' = "download"
    /\ page' = 0 /\ start' = 0 /\ stopped' = FALSE /\ reqs' = Empty /\ nexts' = Empty
    /\ UNCHANGED <<qi, results, returned, disk, dlog, manifests, nameVars>>

----------------------------------------------------------------------------
(* download_pdf, main's download loop, save_manifest *)

\* OUT_DIR / f"{filename}.pdf"
BasePath(filename) == OUT_DIR \o <<"/">> \o filename \o DotPdf

\* OUT_DIR / f"{filename} ({i}).pdf"
TrialPath(filename, i) ==
    OUT_DIR \o <<"/">> \o filename \o <<" ", "(">> \o Dec(i) \o <<")">> \o DotPdf

\* safe_filename(title_hint) or guess_filename_from_url(url)
TargetName(url, title_hint) ==
    With(safe_filename(title_hint), LAMBDA s :
         IF s # Empty THEN s ELSE guess_filename_from_url(url))

\* the collision loop of download_pdf: the first i of range(2, 9999) whose trial path
\* is free, or 0 when the loop ends without its break
FirstFree(filename, d) ==
    IF \E i \in 2..(TrialLimit - 1) : TrialPath(filename, i) \notin d
    THEN CHOOSE i \in 2..(TrialLimit - 1) :
            /\ TrialPath(filename, i) \notin d
            /\ \A j \in 2..(i - 1) : TrialPath(filename, j) \in d
    ELSE 0

\* the path download_pdf settles on before it sends the request
TargetPath(filename, d) ==
    IF BasePath(filename) \notin d THEN BasePath(filename)
    ELSE LET i == FirstFree(filename, d)
         IN  IF i = 0 THEN BasePath(filename) ELSE TrialPath(filename, i)

\* f"HTTP {r.status_code}"
HttpMsg(status) == <<"H","T","T","P"," ">> \o Dec(status)

\* f"Not a PDF ({r.headers.get('Content-Type')})"
NotPdfMsg(resp) ==
    <<"N","o","t"," ","a"," ","P","D","F"," ","(">>
      \o (IF resp.has_ctype THEN resp.ctype ELSE <<"N","o","n","e">>) \o <<")">>

\* "not is_pdf_response(r) and not url.lower().endswith('.pdf')"
Rejected(url, resp) == ~is_pdf_response(resp) /\ ~EndsWith(Lower(url), DotPdf)

\* the try block of download_pdf for the path chosen: the pair it returns and what it
\* did to the path ("none", "partial" when the body broke off after open(), "full")
Fetch(url, path, resp) ==
    LET Out(ok, info, wrote) == [ok |-> ok, info |-> info, wrote |-> wrote]
    IN  IF resp.exc = "connect" THEN Out(FALSE, resp.msg, "none")
        ELSE IF resp.status # 200 THEN Out(FALSE, HttpMsg(resp.status), "none")
        ELSE IF Rejected(url, resp) THEN Out(FALSE, NotPdfMsg(resp), "none")
        ELSE IF resp.exc = "stream" THEN Out(FALSE, resp.msg, "partial")
        ELSE Out(TRUE, path, "full")

\* main: the entry after the outcome of its download is recorded
Marked(item, ok, info) ==
    IF ok THEN [item EXCEPT !.status = "downloaded", !.saved_as = info]
    ELSE [item EXCEPT !.status = "skipped", !.error = info]

\* main: the position of the download loop after the entry at position i
NextItem(i) == i + 1

\* one iteration of main's download loop: download_pdf and the marking of the entry
Download ==
    /\ pc = "download" /\ di <= Len(all_results)
    /\ \E item \in {all_results[di]} :
       \E filename \in {TargetName(item.link, item.title)} :
       \E path \in {TargetPath(filename, disk)} :
       \E resp \in DownloadResponses :
       \E got \in {Fetch(item.link, path, resp)} :
          /\ all_results' = [all_results EXCEPT ![di] = Marked(item, got.ok, got.info)]
          /\ disk' = (IF got.wrote = "none" THEN disk ELSE disk \cup {path})
          /\ dlog' = Append(dlog, [pos |-> di, link |-> item.link, title |-> item.title,
                                   resp |-> resp, filename |-> filename, path |-> path,
                                   existed |-> path \in disk, wrote |-> got.wrote])
    /\ di' = NextItem(di)
    /\ UNCHANGED <<pc, qi, page, start, stopped, results, reqs, nexts, returned, combined,
                   manifests, nameVars>>

SaveManifest ==
    /\ pc = "download" /\ di > Len(all_results)
    /\ manifests' = Append(manifests, all_results)
    /\ pc' = "done"
    /\ UNCHANGED <<qi, page, start, stopped, results, reqs, nexts, returned, all_results,
                   combined, di, disk, dlog, nameVars>>

----------------------------------------------------------------------------
(* Specifications *)

InitNameIdle == name = Empty /\ prev = Empty /\ applied = 0

Init ==
    /\ pc = "search" /\ qi = 1 /\ page = 0 /\ start = 0 /\ stopped = FALSE
    /\ results = Empty /\ reqs = Empty /\ nexts = Empty /\ returned = Empty
    /\ all_results = Empty /\ combined = Empty /\ di = 0 /\ disk = {}
    /\ dlog = Empty /\ manifests = Empty
    /\ InitNameIdle

Next ==
    \/ BeginSearch
    \/ FetchPage
    \/ SearchRaises
    \/ SearchReturn
    \/ Dedupe
    \/ Download
    \/ SaveManifest

\* one run of main()
Spec == Init /\ [][Next]_vars

\* main() is a sequential program that keeps running: every step that can be taken is taken
FairSpec == Spec /\ WF_vars(Next)

----------------------------------------------------------------------------
(* dedupe on its own: every list of at most MaxList entries *)

MaxList == 3

ItemA2 == [title |-> <<"x">>, link |-> ItemA.link]

DedupeEntries ==
    {WithOutcome(Hit(QUERIES[q], it)) : q \in 1..Len(QUERIES), it \in {ItemA, ItemA2, ItemB}}

InitDedupe ==
    /\ pc = "dedupe" /\ qi = Len(QUERIES) + 1 /\ page = 0 /\ start = 0 /\ stopped = FALSE
    /\ results = Empty /\ reqs = Empty /\ nexts = Empty /\ returned = Empty
    /\ all_results \in SeqsUpTo(DedupeEntries, MaxList)
    /\ combined = Empty /\ di = 0 /\ disk = {} /\ dlog = Empty /\ manifests = Empty
    /\ InitNameIdle

SpecDedupe == InitDedupe /\ [][Dedupe]_vars

----------------------------------------------------------------------------
(* The download loop on its own: every deduplicated list of at most MaxEntries   *)
(* entries, over an output directory that is empty, holds Report.pdf, or holds   *)
(* every name the collision loop tries for Report                                *)

MaxEntries == 2

DownloadEntries == {WithOutcome(Hit(QUERIES[1], it)) : it \in {ItemA, ItemB, ItemC, ItemD}}

DownloadLists ==
    {l \in SeqsUpTo(DownloadEntries, MaxEntries) :
        \A a, b \in 1..Len(l) : a # b => l[a].link # l[b].link}

\* an output directory in which the base path and every trial path of the collision
\* loop exist
FullDir(filename) ==
    {BasePath(filename)} \cup {TrialPath(filename, i) : i \in 2..(TrialLimit - 1)}

\* the output directories a download loop over l starts from; the full directory is
\* paired with the list of the two entries that sanitize to "Report"
StartDisks(l) ==
    {{}, {BasePath(Report)}}
      \cup (IF l = <<WithOutcome(Hit(QUERIES[1], ItemA)), WithOutcome(Hit(QUERIES[1], ItemB))>>
            THEN {FullDir(Report)} ELSE {})

InitDownload ==
    /\ pc = "download" /\ qi = Len(QUERIES) + 1 /\ page = 0 /\ start = 0 /\ stopped = FALSE
    /\ results = Empty /\ reqs = Empty /\ nexts = Empty /\ returned = Empty
    /\ all_results \in DownloadLists
    /\ combined = all_results /\ di = 1
    /\ disk \in StartDisks(all_results)
    /\ dlog = Empty /\ manifests = Empty
    /\ InitNameIdle

NextDownload == Download \/ SaveManifest

SpecDownload == InitDownload /\ [][NextDownload]_vars

----------------------------------------------------------------------------
(* Properties *)

\* the positions of rs that hold the first occurrence of their link
FirstIdx(rs) == {i \in 1..Len(rs) : \A j \in 1..(i - 1) : rs[j].link # rs[i].link}

\* the a-th smallest element of a set of numbers
Nth(S, a) == CHOOSE i \in S : Cardinality({j \in S : j <= i}) = a

Deduped == pc = "download" /\ dlog = Empty

\* C1: dedupe returns exactly the first occurrence of each distinct link, in the
\* original order: no two output entries share a link, every input link is in the
\* output, the output is no longer than the input, and the entry kept for a link is
\* the earliest one of the input
DedupeKeepsFirstOccurrences ==
    Deduped =>
        /\ Len(all_results) <= Len(combined)
        /\ \A a, b \in 1..Len(all_results) :
              a # b => all_results[a].link # all_results[b].link
        /\ \A i \in 1..Len(combined) :
              \E a \in 1..Len(all_results) : all_results[a].link = combined[i].link
        /\ Len(all_results) = Cardinality(FirstIdx(combined))
        /\ \A a \in 1..Len(all_results) :
              all_results[a] = combined[Nth(FirstIdx(combined), a)]

\* C1 witness: two queries returned the same link, a third entry follows, and the
\* output carries the first query's entry
DedupeWitness ==
    /\ Deduped
    /\ Len(combined) = 3 /\ Len(all_results) = 2
    /\ combined[1].link = combined[2].link
    /\ combined[1].query # combined[2].query
    /\ all_results[1] = combined[1]

OutcomeConsistent(e) ==
    /\ (e.saved_as # Empty) # (e.error # Empty)
    /\ (e.status = "downloaded") <=> (e.saved_as # Empty)
    /\ (e.status = "skipped") <=> (e.error # Empty)

\* C2: in the list handed to the manifest writer, every entry has exactly one of
\* saved_as and error non-empty, status is "downloaded" exactly when saved_as is
\* non-empty and "skipped" exactly when error is non-empty, whatever the downloads
\* ended in
ManifestOutcomeExclusive ==
    \A m \in 1..Len(manifests) :
        \A k \in 1..Len(manifests[m]) : OutcomeConsistent(manifests[m][k])

Downloaded(k) == dlog[k].wrote = "full" /\ all_results[dlog[k].pos].status = "downloaded"

\* C3: the entries of a run that resolve to one base filename and are downloaded get
\* pairwise distinct final paths, no download writes to a path that existed before
\* it, and two downloads that sanitize to "Report" in an empty directory produce
\* "Report.pdf" and "Report (2).pdf"
CollisionFree ==
    /\ \A a, b \in 1..Len(dlog) :
          (a < b /\ Downloaded(a) /\ Downloaded(b) /\ dlog[a].filename = dlog[b].filename)
             => dlog[a].path # dlog[b].path
    /\ \A a \in 1..Len(dlog) : Downloaded(a) => ~dlog[a].existed
    /\ \A a, b \in 1..Len(dlog) :
          ( /\ a < b /\ Downloaded(a) /\ Downloaded(b)
            /\ dlog[a].filename = Report /\ dlog[b].filename = Report
            /\ ~dlog[a].existed
            /\ dlog[a].path = BasePath(Report)
            /\ \A c \in (a + 1)..(b - 1) : dlog[c].wrote = "none" )
             => dlog[b].path = OUT_DIR \o <<"/">> \o Report
                                  \o <<" ", "(", "2", ")", ".", "p", "d", "f">>

RECURSIVE KeptHits(_, _)
\* the entries main has collected from the first n finished queries, when a query
\* whose search raised contributes nothing
KeptHits(ret, n) ==
    IF n = 0 THEN Empty
    ELSE KeptHits(ret, n - 1) \o
           (IF ret[n].raised THEN Empty
            ELSE [k \in 1..Len(ret[n].hits) |-> WithOutcome(ret[n].hits[k])])

\* C4: a search that raises for one query never aborts the run: that query
\* contributes no result (the pages fetched before the failure included), every
\* other query is searched and its results are kept, and the run goes on to dedupe,
\* the downloads and the manifest write
SearchFailureIsolated ==
    /\ pc \in {"search", "page", "dedupe"} =>
          /\ Len(returned) = qi - 1
          /\ all_results = KeptHits(returned, Len(returned))
    /\ pc \in {"download", "done"} =>
          /\ Len(returned) = Len(QUERIES)
          /\ combined = KeptHits(returned, Len(returned))
    /\ pc = "done" => Len(manifests) = 1
    /\ pc # "done" => ENABLED Next

\* C4 witness: the first query raised after a page with items, the second query was
\* searched and its hits are in the manifest
SearchFailureWitness ==
    /\ pc = "done"
    /\ returned[1].raised /\ returned[1].hits # Empty
    /\ ~returned[2].raised /\ returned[2].hits # Empty
    /\ Len(manifests) = 1 /\ manifests[1] # Empty
    /\ \A k \in 1..Len(manifests[1]) : manifests[1][k].query = QUERIES[2]

\* C5: the requests of one search_pdfs call start at 1, number at most PAGES, stop
\* after the first response without a next-page start index, and each later request
\* uses the index the previous response supplied
PaginationFollowsNextPage ==
    /\ Len(reqs) <= PAGES
    /\ reqs # Empty => reqs[1] = 1
    /\ Len(nexts) <= Len(reqs) /\ Len(reqs) <= Len(nexts) + 1
    /\ \A k \in 1..(Len(reqs) - 1) : nexts[k] # NoNext /\ reqs[k + 1] = nexts[k]
    /\ (pc = "page" /\ Len(nexts) = Len(reqs) /\ reqs # Empty /\ nexts[Len(nexts)] = NoNext)
          => stopped

\* C5 witness: the first response carried no next-page index and the call ended
\* after one request, the page budget not being used up
PaginationWitness ==
    /\ pc \in {"search", "dedupe"}
    /\ reqs = <<1>> /\ nexts = <<NoNext>> /\ Len(reqs) < PAGES
    /\ returned # Empty /\ ~returned[Len(returned)].raised

\* the sanitized title, before safe_filename's default takes the place of ""
Sanitized(title) == Take(Cleaned(title), NameLimit)

\* C7: download_pdf names the file after the sanitized title when that is non-empty;
\* when it is empty, after the name derived from the URL's path, and "document" only
\* when that is empty too
FilenameFallsBackToUrl ==
    \A k \in 1..Len(dlog) :
        dlog[k].filename = (IF Sanitized(dlog[k].title) # Empty
                            THEN Sanitized(dlog[k].title)
                            ELSE guess_filename_from_url(dlog[k].link))

DeclaresPdf(resp) == resp.has_ctype /\ Contains(Lower(resp.ctype), ApplicationPdf)

Http404 == <<"H","T","T","P"," ","4","0","4">>

\* C8: a download succeeds (file written, final path returned) exactly when the status
\* is 200, the declared content type is a PDF type or the URL ends in ".pdf", and no
\* exception is raised; a non-200 status gives a skipped entry with error
\* "HTTP <code>" and empty saved_as; a non-PDF content type on a URL that does not
\* end in ".pdf" gives a skipped entry whose error names the declared content type
DownloadOutcomeClassified ==
    \A k \in 1..Len(dlog) :
        LET r == dlog[k].resp
            e == all_results[dlog[k].pos]
            pdfish == DeclaresPdf(r) \/ EndsWith(Lower(dlog[k].link), DotPdf)
            success == /\ e.status = "downloaded" /\ e.saved_as = dlog[k].path
                       /\ dlog[k].wrote = "full" /\ dlog[k].path \in disk
        IN  /\ success <=> (r.exc = "none" /\ r.status = 200 /\ pdfish)
            /\ ~success => e.status = "skipped" /\ e.saved_as = Empty
            /\ (r.exc # "connect" /\ r.status # 200) =>
                  /\ e.error = <<"H","T","T","P"," ">> \o Dec(r.status)
                  /\ r.status = 404 => e.error = Http404
            /\ (r.exc # "connect" /\ r.status = 200 /\ ~pdfish) =>
                  /\ e.error # Empty
                  /\ r.has_ctype => Contains(e.error, r.ctype)

\* C8 witness: one entry met a 404, another a text/html response on a URL that does
\* not end in ".pdf"
DownloadOutcomeWitness ==
    \E j, k \in 1..Len(dlog) :
        /\ dlog[j].resp.status = 404 /\ all_results[j].error = Http404
        /\ dlog[k].resp.exc = "none" /\ dlog[k].resp.status = 200
        /\ dlog[k].resp.ctype = TextHtml /\ ~EndsWith(Lower(dlog[k].link), DotPdf)
        /\ all_results[k].status = "skipped"

\* C9: no download before every query is searched and the list deduplicated; the
\* entries go to the downloader once each, in list order; an entry's outcome is
\* written once; the manifest is written once, after the last download, and nothing
\* changes afterwards; every run reaches the manifest write
RunInOrder ==
    /\ [](dlog # Empty => (pc \in {"download", "done"} /\ Len(returned) = Len(QUERIES)))
    /\ [](pc \in {"download", "done"} =>
            /\ Len(dlog) = di - 1 /\ Len(dlog) <= Len(all_results)
            /\ \A k \in 1..Len(dlog) :
                  /\ dlog[k].pos = k /\ dlog[k].link = all_results[k].link
                  /\ all_results[k].status # ""
            /\ \A k \in (Len(dlog) + 1)..Len(all_results) :
                  /\ all_results[k].status = ""
                  /\ all_results[k].saved_as = Empty /\ all_results[k].error = Empty)
    /\ [](manifests # Empty => (pc = "done" /\ Len(dlog) = Len(all_results)))
    /\ [](pc = "done" => manifests = <<all_results>>)
    /\ [][\A k \in 1..Len(all_results) :
             all_results[k].status # "" =>
                (k <= Len(all_results') /\ all_results'[k] = all_results[k])]_vars
    /\ [][manifests # Empty => UNCHANGED <<all_results, manifests, dlog, disk>>]_vars
    /\ <>(pc = "done")

\* C9 witness: a finished run in which a search raised, one download was skipped and
\* another succeeded
RunInOrderWitness ==
    /\ pc = "done"
    /\ \E q \in 1..Len(returned) : returned[q].raised
    /\ \E j, k \in 1..Len(all_results) :
          all_results[j].status = "skipped" /\ all_results[k].status = "downloaded"

\* C10: a download that ends with the entry marked "skipped" creates or modifies no
\* file, and every file in the output directory, empty at the start of the run, is
\* the saved_as of an entry marked "downloaded"
SkipLeavesNoFile ==
    /\ \A k \in 1..Len(dlog) :
          all_results[dlog[k].pos].status = "skipped" => dlog[k].wrote = "none"
    /\ \A p \in disk :
          \E k \in 1..Len(all_results) :
              all_results[k].status = "downloaded" /\ all_results[k].saved_as = p

====
